---- MODULE Spec2Model ----
(***************************************************************************)
(* Model of the UHTP Python viewer: the trial detector                     *)
(* (ExperimentRecorder, main.py) with its two sinks (HDF5Writer,           *)
(* CSVWriter), and the UDP receiver with the consumer loop of main().      *)
(***************************************************************************)
EXTENDS Integers, Sequences, FiniteSets, TLC

(***************************************************************************)
(* Bounds of the model.                                                    *)
(***************************************************************************)
\* number of process() calls made on one recorder
MaxMsgs == 3
\* trial numbers carried by messages are 0..MaxTrial
MaxTrial == 2
\* number of datagrams the producer sends to the receiver's socket
MaxDatagrams == 3
\* capacity of the receiver's backlog (the queue_size constructor argument)
queue_size == 2
\* datagrams sent and messages processed under the fair specification
MaxFairDatagrams == 2
MaxFairMsgs == 1
\* start() calls that create a loop thread, and datagrams sent, in the
\* specification of the receiver's lifecycle
MaxStarts == 2
MaxLifeDatagrams == 1

(***************************************************************************)
(* protocol.py: TaskState                                                  *)
(***************************************************************************)
IDLE == 0
RUNNING == 1
PAUSED == 2
COMPLETED == 3
FAILED == 4

TaskState == {IDLE, RUNNING, PAUSED, COMPLETED, FAILED}

MESSAGE_SIZE == 64

TrialNumbers == 0..MaxTrial

\* A decoded message. Of the seven float fields only the timestamp is kept:
\* it identifies the sample; cursor and target values never decide control flow.
UDPMessage(ts, st, tn) == [timestamp_us |-> ts, task_state |-> st, trial_number |-> tn]

VARIABLES
    recorder,   \* ExperimentRecorder fields
    hdf5,       \* HDF5Writer fields and the trial groups written to its file
    csv,        \* CSVWriter fields and the rows written to its file
    phase,      \* position of the recorder's caller: "init", "loop", "done"
    trace,      \* history: the calls made on the recorder, in order
    events,     \* history: _start_trial / _end_trial / record executions
    receiver,   \* UDPReceiver fields
    lock,       \* UDPReceiver._lock: None, or Some(the loop thread holding it)
    threads,    \* the threads running _receive_loop: position and locals
    sockbuf,    \* datagrams waiting in the socket's receive buffer
    sent,       \* number of datagrams the producer has sent
    taken,      \* history: the datagrams recvfrom has returned, in order
    drained,    \* history: the results of the get_all calls, concatenated
    codec       \* the codec exercised alone: message, frame, decoded result

recorderVars == <<recorder, hdf5, csv, trace, events>>
receiverVars == <<receiver, lock, threads, sockbuf, sent, taken, drained, codec>>
vars == <<recorder, hdf5, csv, phase, trace, events,
          receiver, lock, threads, sockbuf, sent, taken, drained, codec>>

Last(s) == s[Len(s)]

(***************************************************************************)
(* hdf5_writer.py: HDF5Writer                                              *)
(***************************************************************************)
HDF5Writer_start_experiment(h) ==
    [h EXCEPT !.file = TRUE, !.groups = <<>>, !.trial_number = 0]

HDF5Writer_start_trial(h) ==
    LET h1 == IF ~h.file THEN HDF5Writer_start_experiment(h) ELSE h
    IN  [h1 EXCEPT !.trial_number = @ + 1, !.trial_data = <<>>, !.recording = TRUE]

\* record dropping the sample
HDF5Writer_record_drops_sample(h, msg) == h

HDF5Writer_record(h, msg) ==
    IF h.recording THEN [h EXCEPT !.trial_data = Append(@, msg)] ELSE h

\* duration_s of a sample buffer, in microseconds (the code divides by 1e6)
Duration(td) ==
    IF td # <<>> THEN Last(td).timestamp_us - td[1].timestamp_us ELSE 0

HDF5Writer_end_trial(h, success) ==
    IF ~h.recording \/ ~h.file THEN h
    ELSE [h EXCEPT !.recording = FALSE,
                   !.groups = Append(@, [trial |-> h.trial_number,
                                         success |-> success,
                                         timeseries |-> h.trial_data,
                                         sample_count |-> Len(h.trial_data),
                                         duration |-> Duration(h.trial_data)])]

HDF5Writer_close(h) == [h EXCEPT !.file = FALSE]

(***************************************************************************)
(* csv_writer.py: CSVWriter                                                *)
(***************************************************************************)
CSVWriter_start_experiment(c) ==
    [c EXCEPT !.writer = TRUE, !.rows = <<>>, !.trial_number = 0]

CSVWriter_write_trial(c, duration, sample_count, success) ==
    LET c1 == IF ~c.writer THEN CSVWriter_start_experiment(c) ELSE c
    IN  [c1 EXCEPT !.trial_number = @ + 1,
                   !.rows = Append(@, [trial |-> c1.trial_number + 1,
                                       duration |-> duration,
                                       sample_count |-> sample_count,
                                       success |-> success])]

CSVWriter_close(c) == [c EXCEPT !.writer = FALSE]

(***************************************************************************)
(* main.py: ExperimentRecorder.  The methods are operators on the world w  *)
(* = [rec, hdf5, csv, trace, events]; self.hdf5 / self.csv are None        *)
(* exactly when enable_hdf5 / enable_csv is false.                         *)
(***************************************************************************)
World == [rec |-> recorder, hdf5 |-> hdf5, csv |-> csv, trace |-> trace, events |-> events]

Event(w, op, arg) == [op |-> op, arg |-> arg, at |-> Len(w.trace)]

ExperimentRecorder_start(w) ==
    LET w1 == IF w.rec.enable_hdf5
              THEN [w EXCEPT !.hdf5 = HDF5Writer_start_experiment(@)] ELSE w
    IN  IF w1.rec.enable_csv
        THEN [w1 EXCEPT !.csv = CSVWriter_start_experiment(@)] ELSE w1

\* end_trial without the reset of trial_active
end_trial_keeps_active(w, success) ==
    IF ~w.rec.trial_active THEN w
    ELSE LET w1 == [w EXCEPT !.events = Append(@, Event(w, "end_trial", success))]
         IN  IF ~w1.rec.enable_hdf5 THEN w1
             ELSE LET duration == Duration(w1.hdf5.trial_data)
                      w2 == [w1 EXCEPT !.hdf5 = HDF5Writer_end_trial(@, success)]
                  IN  IF w2.rec.enable_csv
                      THEN [w2 EXCEPT !.csv = CSVWriter_write_trial(
                                @, duration, w2.rec.sample_count, success)]
                      ELSE w2

end_trial(w, success) ==
    IF ~w.rec.trial_active THEN w
    ELSE LET w1 == [w EXCEPT !.rec.trial_active = FALSE,
                             !.events = Append(@, Event(w, "end_trial", success))]
         IN  IF ~w1.rec.enable_hdf5 THEN w1
             ELSE LET duration == Duration(w1.hdf5.trial_data)
                      w2 == [w1 EXCEPT !.hdf5 = HDF5Writer_end_trial(@, success)]
                  IN  IF w2.rec.enable_csv
                      THEN [w2 EXCEPT !.csv = CSVWriter_write_trial(
                                @, duration, w2.rec.sample_count, success)]
                      ELSE w2

\* start_trial without the reset of sample_count
start_trial_keeps_count(w, trial_number) ==
    LET w1 == [w EXCEPT !.rec.current_trial = trial_number,
                        !.rec.trial_active = TRUE,
                        !.events = Append(@, Event(w, "start_trial", trial_number))]
    IN  IF w1.rec.enable_hdf5
        THEN [w1 EXCEPT !.hdf5 = HDF5Writer_start_trial(@)] ELSE w1

start_trial(w, trial_number) ==
    LET w1 == [w EXCEPT !.rec.current_trial = trial_number,
                        !.rec.trial_active = TRUE,
                        !.rec.sample_count = 0,
                        !.events = Append(@, Event(w, "start_trial", trial_number))]
    IN  IF w1.rec.enable_hdf5
        THEN [w1 EXCEPT !.hdf5 = HDF5Writer_start_trial(@)] ELSE w1

\* process_running recording the sample before the trial is started
process_running_records_first(w, msg) ==
    LET wr == IF w.rec.enable_hdf5
              THEN [w EXCEPT !.hdf5 = HDF5Writer_record(@, msg),
                             !.rec.sample_count = @ + 1,
                             !.events = Append(@, Event(w, "record", msg))]
              ELSE w
    IN  IF ~wr.rec.trial_active \/ msg.trial_number # wr.rec.current_trial
        THEN start_trial(IF wr.rec.trial_active THEN end_trial(wr, TRUE) ELSE wr,
                         msg.trial_number)
        ELSE wr

\* lines 70-82: the RUNNING branch
process_running(w, msg) ==
    LET wa == IF ~w.rec.trial_active \/ msg.trial_number # w.rec.current_trial
              THEN start_trial(IF w.rec.trial_active THEN end_trial(w, TRUE) ELSE w,
                               msg.trial_number)
              ELSE w
    IN  IF wa.rec.enable_hdf5 /\ wa.rec.trial_active
        THEN [wa EXCEPT !.hdf5 = HDF5Writer_record(@, msg),
                        !.rec.sample_count = @ + 1,
                        !.events = Append(@, Event(wa, "record", msg))]
        ELSE wa

\* process_trial_end closing a FAILED trial as successful
process_trial_end_always_success(w, msg) ==
    IF w.rec.trial_active THEN
        IF msg.task_state = COMPLETED THEN end_trial(w, TRUE)
        ELSE IF msg.task_state = FAILED THEN end_trial(w, TRUE)
        ELSE w
    ELSE w

\* lines 85-92: the branch of a message that is not RUNNING
process_trial_end(w, msg) ==
    IF w.rec.trial_active THEN
        IF msg.task_state = COMPLETED THEN end_trial(w, TRUE)
        ELSE IF msg.task_state = FAILED THEN end_trial(w, FALSE)
        ELSE w
    ELSE w

\* process treating a PAUSED message as a RUNNING one
process_paused_as_running(w0, msg) ==
    LET w == [w0 EXCEPT !.trace = Append(@, [call |-> "process", msg |-> msg])]
        w1 == IF msg.task_state \in {RUNNING, PAUSED} THEN process_running(w, msg)
              ELSE process_trial_end(w, msg)
    IN  [w1 EXCEPT !.rec.current_state = msg.task_state,
                   !.rec.current_trial = msg.trial_number]

process(w0, msg) ==
    LET w == [w0 EXCEPT !.trace = Append(@, [call |-> "process", msg |-> msg])]
        w1 == IF msg.task_state = RUNNING THEN process_running(w, msg)
              ELSE process_trial_end(w, msg)
    IN  [w1 EXCEPT !.rec.current_state = msg.task_state,
                   !.rec.current_trial = msg.trial_number]

stop(w0) ==
    LET w == [w0 EXCEPT !.trace = Append(@, [call |-> "stop"])]
        w1 == IF w.rec.trial_active THEN end_trial(w, FALSE) ELSE w
        w2 == IF w1.rec.enable_hdf5 THEN [w1 EXCEPT !.hdf5 = HDF5Writer_close(@)] ELSE w1
    IN  IF w2.rec.enable_csv THEN [w2 EXCEPT !.csv = CSVWriter_close(@)] ELSE w2

(***************************************************************************)
(* protocol.py: UDPMessage.from_bytes.  A datagram is its length and the   *)
(* fields the unpacking reads; an optional value is <<>> (None) or <<v>>.  *)
(***************************************************************************)
None == <<>>
Some(v) == <<v>>

Datagram(len, ts, ordinal, tn) ==
    [len |-> len, timestamp_us |-> ts, task_state |-> ordinal, trial_number |-> tn]

from_bytes(data) ==
    IF data.len < MESSAGE_SIZE THEN None
    ELSE IF data.task_state \notin TaskState THEN None
    ELSE Some(UDPMessage(data.timestamp_us, data.task_state, data.trial_number))

(***************************************************************************)
(* protocol.py: the codec at the level of bytes.  MESSAGE_FORMAT is        *)
(* '<dddddddII': seven little-endian IEEE-754 doubles and two little-      *)
(* endian unsigned 32-bit integers, without padding.  A double is written  *)
(* as the 8 bytes struct packs it to, least significant byte first, so     *)
(* packing and unpacking a double copy its bytes; the integers are packed  *)
(* and unpacked arithmetically.  from_bytes above is this decoder seen     *)
(* through the three fields that decide control flow.                      *)
(***************************************************************************)
\* 0.0, -0.0, 0.5, 1.0 and the quiet NaN float('nan') packs to
FloatZero    == <<0, 0, 0, 0, 0, 0, 0, 0>>
FloatNegZero == <<0, 0, 0, 0, 0, 0, 0, 128>>
FloatHalf    == <<0, 0, 0, 0, 0, 0, 224, 63>>
FloatOne     == <<0, 0, 0, 0, 0, 0, 240, 63>>
FloatNaN     == <<0, 0, 0, 0, 0, 0, 248, 127>>

\* exponent all ones and a non-zero mantissa
IsNaN(f) ==
    /\ f[8] % 128 = 127
    /\ f[7] \div 16 = 15
    /\ (f[7] % 16 # 0 \/ \E i \in 1..6 : f[i] # 0)

IsZero(f) == f[8] % 128 = 0 /\ \A i \in 1..7 : f[i] = 0

\* float.__eq__: a NaN equals nothing, the two zeros are equal, otherwise
\* two doubles are equal when their bytes are
float_eq(a, b) ==
    /\ ~IsNaN(a)
    /\ ~IsNaN(b)
    /\ (a = b \/ (IsZero(a) /\ IsZero(b)))

FloatFields == <<"timestamp_us", "cursor_x", "cursor_y", "cursor_vx",
                 "cursor_vy", "target_x", "target_y">>

\* the __eq__ the dataclass decorator generates: the tuples of fields are
\* compared, field by field
UDPMessage_eq(a, b) ==
    /\ \A i \in 1..Len(FloatFields) : float_eq(a[FloatFields[i]], b[FloatFields[i]])
    /\ a.task_state = b.task_state
    /\ a.trial_number = b.trial_number

\* struct format 'I' with '<': four bytes, least significant first
pack_uint32(n) ==
    <<n % 256, (n \div 256) % 256, (n \div 65536) % 256, (n \div 16777216) % 256>>

unpack_uint32(b) == b[1] + 256 * b[2] + 65536 * b[3] + 16777216 * b[4]

\* to_bytes packing trial_number before task_state
UDPMessage_to_bytes_swaps_integers(m) ==
    m.timestamp_us \o m.cursor_x \o m.cursor_y \o m.cursor_vx \o m.cursor_vy
        \o m.target_x \o m.target_y
        \o pack_uint32(m.trial_number) \o pack_uint32(m.task_state)

\* to_bytes: struct.pack(MESSAGE_FORMAT, ...) of the nine fields in order
UDPMessage_to_bytes(m) ==
    m.timestamp_us \o m.cursor_x \o m.cursor_y \o m.cursor_vx \o m.cursor_vy
        \o m.target_x \o m.target_y
        \o pack_uint32(m.task_state) \o pack_uint32(m.trial_number)

\* struct.unpack(MESSAGE_FORMAT, data) of exactly MESSAGE_SIZE bytes
struct_unpack(data) ==
    <<SubSeq(data, 1, 8), SubSeq(data, 9, 16), SubSeq(data, 17, 24),
      SubSeq(data, 25, 32), SubSeq(data, 33, 40), SubSeq(data, 41, 48),
      SubSeq(data, 49, 56),
      unpack_uint32(SubSeq(data, 57, 60)), unpack_uint32(SubSeq(data, 61, 64))>>

\* from_bytes accepting a frame of exactly MESSAGE_SIZE bytes only
UDPMessage_from_bytes_exact_length(data) ==
    IF Len(data) # MESSAGE_SIZE THEN None
    ELSE LET values == struct_unpack(SubSeq(data, 1, MESSAGE_SIZE))
         IN  IF values[8] \notin TaskState THEN None
             ELSE Some([timestamp_us |-> values[1], cursor_x |-> values[2],
                        cursor_y |-> values[3], cursor_vx |-> values[4],
                        cursor_vy |-> values[5], target_x |-> values[6],
                        target_y |-> values[7], task_state |-> values[8],
                        trial_number |-> values[9]])

\* from_bytes: None for a short frame; TaskState(values[7]) raises ValueError
\* for an ordinal outside the enum, which the except clause turns into None
UDPMessage_from_bytes(data) ==
    IF Len(data) < MESSAGE_SIZE THEN None
    ELSE LET values == struct_unpack(SubSeq(data, 1, MESSAGE_SIZE))
         IN  IF values[8] \notin TaskState THEN None
             ELSE Some([timestamp_us |-> values[1], cursor_x |-> values[2],
                        cursor_y |-> values[3], cursor_vx |-> values[4],
                        cursor_vy |-> values[5], target_x |-> values[6],
                        target_y |-> values[7], task_state |-> values[8],
                        trial_number |-> values[9]])

\* the codec variable while the codec is not exercised alone
IdleCodec == [pc |-> "idle", kind |-> "exact", msg |-> None, data |-> <<>>, out |-> None]

(***************************************************************************)
(* udp_receiver.py: UDPReceiver                                            *)
(***************************************************************************)
\* a deque that refuses the new message when full instead of evicting
deque_append_drops_newest(q, m) ==
    IF Len(q) >= queue_size THEN q ELSE Append(q, m)

\* deque(maxlen=queue_size).append
deque_append(q, m) ==
    IF Len(q) >= queue_size THEN Append(Tail(q), m) ELSE Append(q, m)

NewThread == [pc |-> "while", data |-> None, msg |-> None, tmp |-> 0]

\* start(): no effect on a running receiver, else a new loop thread
UDPReceiver_start ==
    IF receiver.running
    THEN UNCHANGED <<receiver, threads>>
    ELSE /\ threads' = Append(threads, NewThread)
         /\ receiver' = [receiver EXCEPT !.running = TRUE,
                                         !.thread = Some(Len(threads) + 1)]

\* get_latest(): the guard is taken, last_message read, the guard released
\* (the caller's step requires the guard to be free)
UDPReceiver_get_latest == receiver.last_message

\* LoopWhile never seeing the stop signal
LoopWhile_ignores_stop(t) ==
    /\ threads[t].pc = "while"
    /\ threads' = [threads EXCEPT ![t].pc = "recvfrom"]
    /\ UNCHANGED <<receiver, lock, sockbuf, taken>>

\* while self._running:
LoopWhile(t) ==
    /\ threads[t].pc = "while"
    /\ threads' = [threads EXCEPT ![t].pc = IF receiver.running THEN "recvfrom" ELSE "exit"]
    /\ UNCHANGED <<receiver, lock, sockbuf, taken>>

\* LoopRecvfrom letting the exception of a closed socket end the thread
LoopRecvfrom_dies_on_error(t) ==
    /\ threads[t].pc = "recvfrom"
    /\ IF ~receiver.socket_open
       THEN /\ threads' = [threads EXCEPT ![t].pc = "exit"]
            /\ UNCHANGED <<sockbuf, taken>>
       ELSE IF sockbuf = <<>>
       THEN /\ threads' = [threads EXCEPT ![t].pc = "while"]
            /\ UNCHANGED <<sockbuf, taken>>
       ELSE /\ threads' = [threads EXCEPT ![t].pc = "from_bytes",
                                          ![t].data = Some(Head(sockbuf))]
            /\ sockbuf' = Tail(sockbuf)
            /\ taken' = Append(taken, Head(sockbuf))
    /\ UNCHANGED <<receiver, lock>>

\* self.socket.recvfrom(...): OSError on a closed socket (counted by the
\* except Exception branch), BlockingIOError when no datagram waits (pass),
\* else the oldest waiting datagram
LoopRecvfrom(t) ==
    /\ threads[t].pc = "recvfrom"
    /\ IF ~receiver.socket_open
       THEN /\ threads' = [threads EXCEPT ![t].pc = "error_load"]
            /\ UNCHANGED <<sockbuf, taken>>
       ELSE IF sockbuf = <<>>
       THEN /\ threads' = [threads EXCEPT ![t].pc = "while"]
            /\ UNCHANGED <<sockbuf, taken>>
       ELSE /\ threads' = [threads EXCEPT ![t].pc = "from_bytes",
                                          ![t].data = Some(Head(sockbuf))]
            /\ sockbuf' = Tail(sockbuf)
            /\ taken' = Append(taken, Head(sockbuf))
    /\ UNCHANGED <<receiver, lock>>

\* LoopFromBytes counting a datagram that failed to decode as received
LoopFromBytes_counts_failed(t) ==
    /\ threads[t].pc = "from_bytes"
    /\ LET msg == from_bytes(threads[t].data[1])
       IN  threads' = [threads EXCEPT ![t].pc = IF msg # None THEN "lock" ELSE "count_load",
                                      ![t].data = None,
                                      ![t].msg = msg]
    /\ UNCHANGED <<receiver, lock, sockbuf, taken>>

\* msg = UDPMessage.from_bytes(data); if msg:
LoopFromBytes(t) ==
    /\ threads[t].pc = "from_bytes"
    /\ LET msg == from_bytes(threads[t].data[1])
       IN  threads' = [threads EXCEPT ![t].pc = IF msg # None THEN "lock" ELSE "while",
                                      ![t].data = None,
                                      ![t].msg = msg]
    /\ UNCHANGED <<receiver, lock, sockbuf, taken>>

\* with self._lock:
LoopLock(t) ==
    /\ threads[t].pc = "lock"
    /\ lock = None
    /\ lock' = Some(t)
    /\ threads' = [threads EXCEPT ![t].pc = "append"]
    /\ UNCHANGED <<receiver, sockbuf, taken>>

\* LoopAppend leaving the guard before last_message is written
LoopAppend_releases_guard(t) ==
    /\ threads[t].pc = "append"
    /\ receiver' = [receiver EXCEPT !.queue = deque_append(@, threads[t].msg[1])]
    /\ threads' = [threads EXCEPT ![t].pc = "last_message"]
    /\ lock' = None
    /\ UNCHANGED <<sockbuf, taken>>

\* self._queue.append(msg)
LoopAppend(t) ==
    /\ threads[t].pc = "append"
    /\ receiver' = [receiver EXCEPT !.queue = deque_append(@, threads[t].msg[1])]
    /\ threads' = [threads EXCEPT ![t].pc = "last_message"]
    /\ UNCHANGED <<lock, sockbuf, taken>>

\* LoopLastMessage keeping the guard after the with block
LoopLastMessage_keeps_guard(t) ==
    /\ threads[t].pc = "last_message"
    /\ receiver' = [receiver EXCEPT !.last_message = threads[t].msg]
    /\ threads' = [threads EXCEPT ![t].pc = "count_load", ![t].msg = None]
    /\ UNCHANGED <<lock, sockbuf, taken>>

\* self.last_message = msg, and the guard is released
LoopLastMessage(t) ==
    /\ threads[t].pc = "last_message"
    /\ receiver' = [receiver EXCEPT !.last_message = threads[t].msg]
    /\ lock' = None
    /\ threads' = [threads EXCEPT ![t].pc = "count_load", ![t].msg = None]
    /\ UNCHANGED <<sockbuf, taken>>

\* self.receive_count += 1: a read of the attribute, then a write
LoopCountLoad(t) ==
    /\ threads[t].pc = "count_load"
    /\ threads' = [threads EXCEPT ![t].pc = "count_store",
                                  ![t].tmp = receiver.receive_count]
    /\ UNCHANGED <<receiver, lock, sockbuf, taken>>

LoopCountStore(t) ==
    /\ threads[t].pc = "count_store"
    /\ receiver' = [receiver EXCEPT !.receive_count = threads[t].tmp + 1]
    /\ threads' = [threads EXCEPT ![t].pc = "while", ![t].tmp = 0]
    /\ UNCHANGED <<lock, sockbuf, taken>>

\* except Exception: self.error_count += 1
LoopErrorLoad(t) ==
    /\ threads[t].pc = "error_load"
    /\ threads' = [threads EXCEPT ![t].pc = "error_store",
                                  ![t].tmp = receiver.error_count]
    /\ UNCHANGED <<receiver, lock, sockbuf, taken>>

LoopErrorStore(t) ==
    /\ threads[t].pc = "error_store"
    /\ receiver' = [receiver EXCEPT !.error_count = threads[t].tmp + 1]
    /\ threads' = [threads EXCEPT ![t].pc = "while", ![t].tmp = 0]
    /\ UNCHANGED <<lock, sockbuf, taken>>

\* one step of a thread running _receive_loop
ReceiveLoop ==
    /\ \E t \in 1..Len(threads) :
          \/ LoopWhile(t)
          \/ LoopRecvfrom(t)
          \/ LoopFromBytes(t)
          \/ LoopLock(t)
          \/ LoopAppend(t)
          \/ LoopLastMessage(t)
          \/ LoopCountLoad(t)
          \/ LoopCountStore(t)
          \/ LoopErrorLoad(t)
          \/ LoopErrorStore(t)
    /\ UNCHANGED <<recorderVars, phase, sent, drained, codec>>

(***************************************************************************)
(* The recorder driven by its caller: an optional start(), then process()  *)
(* per message, then one final stop().                                     *)
(***************************************************************************)
Install(w) ==
    /\ recorder' = w.rec
    /\ hdf5' = w.hdf5
    /\ csv' = w.csv
    /\ trace' = w.trace
    /\ events' = w.events

NumProcessed == Len(SelectSeq(trace, LAMBDA c : c.call = "process"))

InitRecorder ==
    /\ \E eh \in BOOLEAN, ec \in BOOLEAN :
          recorder = [enable_hdf5 |-> eh, enable_csv |-> ec,
                      current_trial |-> 0, current_state |-> IDLE,
                      trial_active |-> FALSE, sample_count |-> 0]
    /\ hdf5 = [file |-> FALSE, trial_number |-> 0, recording |-> FALSE,
               trial_data |-> <<>>, groups |-> <<>>]
    /\ csv = [writer |-> FALSE, trial_number |-> 0, rows |-> <<>>]
    /\ trace = <<>>
    /\ events = <<>>

InitReceiver ==
    /\ receiver = [socket_open |-> TRUE, queue |-> <<>>, receive_count |-> 0,
                   error_count |-> 0, last_message |-> None,
                   running |-> FALSE, thread |-> None]
    /\ lock = None
    /\ threads = <<>>
    /\ sockbuf = <<>>
    /\ sent = 0
    /\ taken = <<>>
    /\ drained = <<>>

Init ==
    /\ InitRecorder
    /\ InitReceiver
    /\ codec = IdleCodec
    /\ phase = "init"

Start ==
    /\ phase = "init"
    /\ phase' = "loop"
    /\ Install(ExperimentRecorder_start(World))
    /\ UNCHANGED receiverVars

Process ==
    /\ phase \in {"init", "loop"}
    /\ NumProcessed < MaxMsgs
    /\ \E st \in TaskState, tn \in TrialNumbers :
          Install(process(World, UDPMessage(NumProcessed + 1, st, tn)))
    /\ phase' = "loop"
    /\ UNCHANGED receiverVars

Stop ==
    /\ phase \in {"init", "loop"}
    /\ phase' = "done"
    /\ Install(stop(World))
    /\ UNCHANGED receiverVars

Next == Start \/ Process \/ Stop

Spec == Init /\ [][Next]_vars

(***************************************************************************)
(* main.py: main(), with logging enabled.  phase is the position of the    *)
(* main thread: "start", "poll" (the while loop), then the finally block   *)
(* "finally", "join", "socket_close", "recorder_stop", and "exit".         *)
(***************************************************************************)
InitMain ==
    /\ InitRecorder
    /\ InitReceiver
    /\ codec = IdleCodec
    /\ phase = "start"

\* renderer.init() succeeded: receiver.start(), recorder.start(config)
MainStart ==
    /\ phase = "start"
    /\ UDPReceiver_start
    /\ Install(ExperimentRecorder_start(World))
    /\ phase' = "poll"
    /\ UNCHANGED <<lock, sockbuf, sent, taken, drained, codec>>

\* renderer.init() failed: return 1 through the finally block
MainInitFailed ==
    /\ phase = "start"
    /\ phase' = "finally"
    /\ UNCHANGED <<recorderVars, receiverVars>>

\* one pass of the while loop: msg = receiver.get_latest();
\* if msg: recorder.process(msg); renderer.update(msg)
MainTick ==
    /\ phase = "poll"
    /\ lock = None
    /\ LET msg == UDPReceiver_get_latest
       IN  IF msg # None
           THEN /\ NumProcessed < MaxMsgs
                /\ Install(process(World, msg[1]))
           ELSE UNCHANGED recorderVars
    /\ UNCHANGED <<phase, receiverVars>>

\* renderer.update() returned False, renderer.running went False, or
\* KeyboardInterrupt: control reaches the finally block
MainBreak ==
    /\ phase = "poll"
    /\ phase' = "finally"
    /\ UNCHANGED <<recorderVars, receiverVars>>

\* receiver.close() -> stop(): self._running = False; if self._thread: ...
MainStopReceiver ==
    /\ phase = "finally"
    /\ receiver' = [receiver EXCEPT !.running = FALSE]
    /\ phase' = IF receiver.thread # None THEN "join" ELSE "socket_close"
    /\ UNCHANGED <<recorderVars, lock, threads, sockbuf, sent, taken, drained, codec>>

\* self._thread.join(timeout=1.0) returns because the thread has exited
MainJoined ==
    /\ phase = "join"
    /\ threads[receiver.thread[1]].pc = "exit"
    /\ receiver' = [receiver EXCEPT !.thread = None]
    /\ phase' = "socket_close"
    /\ UNCHANGED <<recorderVars, lock, threads, sockbuf, sent, taken, drained, codec>>

\* self._thread.join(timeout=1.0) returns because the timeout has elapsed
MainJoinTimeout ==
    /\ phase = "join"
    /\ threads[receiver.thread[1]].pc # "exit"
    /\ receiver' = [receiver EXCEPT !.thread = None]
    /\ phase' = "socket_close"
    /\ UNCHANGED <<recorderVars, lock, threads, sockbuf, sent, taken, drained, codec>>

\* receiver.close(): self.socket.close(); the waiting datagrams are lost
MainSocketClose ==
    /\ phase = "socket_close"
    /\ receiver' = [receiver EXCEPT !.socket_open = FALSE]
    /\ sockbuf' = <<>>
    /\ phase' = "recorder_stop"
    /\ UNCHANGED <<recorderVars, lock, threads, sent, taken, drained, codec>>

\* renderer.close(); recorder.stop()
MainRecorderStop ==
    /\ phase = "recorder_stop"
    /\ Install(stop(World))
    /\ phase' = "exit"
    /\ UNCHANGED receiverVars

(***************************************************************************)
(* The environment of the receiver: the producer sending datagrams, and a  *)
(* second consumer thread draining the backlog with get_all().             *)
(***************************************************************************)
\* the datagrams the producer may send as its ts-th one: a frame one byte
\* short, and full frames with a valid or an out-of-range task-state ordinal
Sendable(ts) ==
    {Datagram(MESSAGE_SIZE - 1, ts, IDLE, 0)}
    \cup {Datagram(MESSAGE_SIZE, ts, o, 1) : o \in {RUNNING, COMPLETED, FAILED + 1}}

Send ==
    /\ sent < MaxDatagrams
    /\ receiver.socket_open
    /\ \E d \in Sendable(sent + 1) : sockbuf' = Append(sockbuf, d)
    /\ sent' = sent + 1
    /\ UNCHANGED <<recorderVars, phase, receiver, lock, threads, taken, drained, codec>>

\* get_all returning the backlog without clearing it
UDPReceiver_get_all_keeps_backlog ==
    /\ lock = None
    /\ receiver.queue # <<>>
    /\ drained' = drained \o receiver.queue
    /\ UNCHANGED <<recorderVars, phase, receiver, lock, threads, sockbuf, sent, taken, codec>>

\* get_all(): under the guard, copy the backlog and clear it
UDPReceiver_get_all ==
    /\ lock = None
    /\ receiver.queue # <<>>
    /\ drained' = drained \o receiver.queue
    /\ receiver' = [receiver EXCEPT !.queue = <<>>]
    /\ UNCHANGED <<recorderVars, phase, lock, threads, sockbuf, sent, taken, codec>>

NextMain ==
    \/ MainStart
    \/ MainInitFailed
    \/ MainTick
    \/ MainBreak
    \/ MainStopReceiver
    \/ MainJoined
    \/ MainJoinTimeout
    \/ MainSocketClose
    \/ MainRecorderStop
    \/ ReceiveLoop
    \/ Send
    \/ UDPReceiver_get_all

SpecMain == InitMain /\ [][NextMain]_vars

\* main() under fair scheduling, with its own bounds on the datagrams sent
\* and the messages processed: a loop thread that can step eventually does,
\* stop() proceeds once called, and its join returns (the thread has exited
\* or the timeout has elapsed)
FairSend == Send /\ sent < MaxFairDatagrams

FairTick == MainTick /\ NumProcessed < MaxFairMsgs

NextMainFair ==
    \/ MainStart
    \/ MainInitFailed
    \/ FairTick
    \/ MainBreak
    \/ MainStopReceiver
    \/ MainJoined
    \/ MainJoinTimeout
    \/ MainSocketClose
    \/ MainRecorderStop
    \/ ReceiveLoop
    \/ FairSend
    \/ UDPReceiver_get_all

SpecMainFair ==
    /\ InitMain
    /\ [][NextMainFair]_vars
    /\ WF_vars(ReceiveLoop)
    /\ WF_vars(MainStopReceiver)
    /\ WF_vars(MainJoined \/ MainJoinTimeout)

(***************************************************************************)
(* protocol.py: the codec exercised alone.  A message is drawn, to_bytes   *)
(* makes its frame, the frame is possibly cut, extended or given another   *)
(* task-state ordinal, as a datagram from the network may be, and          *)
(* from_bytes decodes it.  codec.pc is "message", "frame" or "decoded";    *)
(* codec.kind tells what was done to the frame.                            *)
(***************************************************************************)
\* trial numbers that exercise each of the four bytes of the field
TrialSamples == {0, 1, 256, 65537, 2147483647}

CodecMessages ==
    {[timestamp_us |-> ts, cursor_x |-> x, cursor_y |-> FloatOne,
      cursor_vx |-> FloatHalf, cursor_vy |-> FloatNegZero,
      target_x |-> FloatZero, target_y |-> y,
      task_state |-> st, trial_number |-> tn] :
        ts \in {FloatZero, FloatOne, FloatNaN},
        x \in {FloatNegZero, FloatHalf, FloatNaN},
        y \in {FloatOne, FloatNaN},
        st \in TaskState, tn \in TrialSamples}

TruncatedLengths == {0, 1, 56, 60, MESSAGE_SIZE - 1}

\* recvfrom(MESSAGE_SIZE + 64) returns at most that many bytes
TrailingBytes == {<<255>>, [i \in 1..64 |-> 255]}

\* ordinals FAILED + 1, 255 and 16777216 + the ordinal of the message
BadOrdinalEdits == {<<57, FAILED + 1>>, <<57, 255>>, <<60, 1>>}

codecOthers == <<recorderVars, phase, receiver, lock, threads, sockbuf, sent,
                 taken, drained>>

InitCodec ==
    /\ InitRecorder
    /\ InitReceiver
    /\ phase = "codec"
    /\ \E m \in CodecMessages :
          codec = [pc |-> "message", kind |-> "exact", msg |-> m,
                   data |-> <<>>, out |-> None]

CodecEncode ==
    /\ codec.pc = "message"
    /\ codec' = [codec EXCEPT !.pc = "frame", !.data = UDPMessage_to_bytes(codec.msg)]
    /\ UNCHANGED codecOthers

CodecTruncate ==
    /\ codec.pc = "frame"
    /\ codec.kind = "exact"
    /\ \E n \in TruncatedLengths :
          codec' = [codec EXCEPT !.kind = "short", !.data = SubSeq(@, 1, n)]
    /\ UNCHANGED codecOthers

CodecExtend ==
    /\ codec.pc = "frame"
    /\ codec.kind = "exact"
    /\ \E tail \in TrailingBytes :
          codec' = [codec EXCEPT !.kind = "long", !.data = @ \o tail]
    /\ UNCHANGED codecOthers

CodecBadOrdinal ==
    /\ codec.pc = "frame"
    /\ codec.kind = "exact"
    /\ \E e \in BadOrdinalEdits :
          codec' = [codec EXCEPT !.kind = "bad_ordinal", !.data[e[1]] = e[2]]
    /\ UNCHANGED codecOthers

CodecDecode ==
    /\ codec.pc = "frame"
    /\ codec' = [codec EXCEPT !.pc = "decoded", !.out = UDPMessage_from_bytes(codec.data)]
    /\ UNCHANGED codecOthers

NextCodec ==
    \/ CodecEncode
    \/ CodecTruncate
    \/ CodecExtend
    \/ CodecBadOrdinal
    \/ CodecDecode

SpecCodec == InitCodec /\ [][NextCodec]_vars

(***************************************************************************)
(* Reading the histories.                                                  *)
(***************************************************************************)
IsStart(e) == e.op = "start_trial"
IsEnd(e) == e.op = "end_trial"
Lifecycle(ev) == SelectSeq(ev, LAMBDA e : IsStart(e) \/ IsEnd(e))
StartsOf(ev) == SelectSeq(ev, IsStart)
EndsOf(ev) == SelectSeq(ev, IsEnd)

(***************************************************************************)
(* udp_receiver.py: one receiver driven by any interleaving of start(),    *)
(* stop() and close() calls from one caller.  phase is the caller's        *)
(* position: "life" between calls, "life_stop_join" / "life_close_join"    *)
(* inside the join of stop() / of close(), "life_socket_close" before the  *)
(* socket.close() of close().  start() is called at most MaxStarts times   *)
(* with effect and not after close(); the producer sends at most           *)
(* MaxLifeDatagrams datagrams.                                             *)
(***************************************************************************)
InitLife ==
    /\ InitRecorder
    /\ InitReceiver
    /\ codec = IdleCodec
    /\ phase = "life"

\* start()
LifeStart ==
    /\ phase = "life"
    /\ receiver.socket_open
    /\ Len(threads) < MaxStarts
    /\ UDPReceiver_start
    /\ UNCHANGED <<recorderVars, phase, lock, sockbuf, sent, taken, drained, codec>>

\* stop(): self._running = False; if self._thread: join
LifeStop ==
    /\ phase = "life"
    /\ receiver' = [receiver EXCEPT !.running = FALSE]
    /\ phase' = IF receiver.thread # None THEN "life_stop_join" ELSE "life"
    /\ UNCHANGED <<recorderVars, lock, threads, sockbuf, sent, taken, drained, codec>>

\* close(): self.stop() ...
LifeClose ==
    /\ phase = "life"
    /\ receiver.socket_open
    /\ receiver' = [receiver EXCEPT !.running = FALSE]
    /\ phase' = IF receiver.thread # None THEN "life_close_join" ELSE "life_socket_close"
    /\ UNCHANGED <<recorderVars, lock, threads, sockbuf, sent, taken, drained, codec>>

\* join(timeout=1.0) returns because the thread has exited; self._thread = None
LifeJoined ==
    /\ phase \in {"life_stop_join", "life_close_join"}
    /\ threads[receiver.thread[1]].pc = "exit"
    /\ receiver' = [receiver EXCEPT !.thread = None]
    /\ phase' = IF phase = "life_stop_join" THEN "life" ELSE "life_socket_close"
    /\ UNCHANGED <<recorderVars, lock, threads, sockbuf, sent, taken, drained, codec>>

\* join(timeout=1.0) returns because the timeout elapsed; self._thread = None
LifeJoinTimeout ==
    /\ phase \in {"life_stop_join", "life_close_join"}
    /\ threads[receiver.thread[1]].pc # "exit"
    /\ receiver' = [receiver EXCEPT !.thread = None]
    /\ phase' = IF phase = "life_stop_join" THEN "life" ELSE "life_socket_close"
    /\ UNCHANGED <<recorderVars, lock, threads, sockbuf, sent, taken, drained, codec>>

\* ... self.socket.close()
LifeSocketClose ==
    /\ phase = "life_socket_close"
    /\ receiver' = [receiver EXCEPT !.socket_open = FALSE]
    /\ phase' = "life"
    /\ UNCHANGED <<recorderVars, lock, threads, sockbuf, sent, taken, drained, codec>>

LifeSend == Send /\ sent < MaxLifeDatagrams

NextLife ==
    \/ LifeStart
    \/ LifeStop
    \/ LifeClose
    \/ LifeJoined
    \/ LifeJoinTimeout
    \/ LifeSocketClose
    \/ ReceiveLoop
    \/ LifeSend

SpecLife == InitLife /\ [][NextLife]_vars

\* the events the current step added
NewEvents == SubSeq(events', Len(events) + 1, Len(events'))

\* the step is a process(msg) call; TheMsg is its message
ProcessStep == Len(trace') = Len(trace) + 1 /\ Last(trace').call = "process"
StopStep == Len(trace') = Len(trace) + 1 /\ Last(trace').call = "stop"
TheMsg == Last(trace').msg

\* the trial_number of the Running message that started the active trial
ActiveNumber == Last(StartsOf(events)).arg

IsProcessOf(c, states) == c.call = "process" /\ c.msg.task_state \in states

\* C1: at most one trial is active at any time: trial starts and trial ends
\* alternate, beginning with a start (never two starts without one end
\* between them, never an end while no trial is active), a trial is active
\* exactly after an unmatched start, and the time-series sink has been told
\* of at most one more start than ends.
C1_AtMostOneActive ==
    LET lc == Lifecycle(events)
    IN  /\ \A i \in 1..Len(lc) : IF i % 2 = 1 THEN IsStart(lc[i]) ELSE IsEnd(lc[i])
        /\ recorder.trial_active <=> (Len(lc) % 2 = 1)
        /\ recorder.enable_hdf5 =>
              /\ hdf5.recording = recorder.trial_active
              /\ hdf5.trial_number = Len(StartsOf(events))
              /\ Len(hdf5.groups) = Len(EndsOf(events))

C1_Witness ==
    /\ recorder.enable_hdf5
    /\ Len(Lifecycle(events)) >= 3
    /\ recorder.trial_active

\* C2: when a trial started by a Running message numbered n is active and a
\* Running message numbered m # n is processed, trial n is closed with
\* success = true, then trial m is started, the message's sample goes to
\* trial m and not to trial n, and the detector is Active(m).
C2_ImplicitClose ==
    [][(/\ ProcessStep
        /\ recorder.trial_active
        /\ TheMsg.task_state = RUNNING
        /\ TheMsg.trial_number # ActiveNumber)
       => /\ Len(NewEvents) >= 2
          /\ IsEnd(NewEvents[1]) /\ NewEvents[1].arg = TRUE
          /\ IsStart(NewEvents[2]) /\ NewEvents[2].arg = TheMsg.trial_number
          /\ recorder'.trial_active
          /\ recorder'.current_trial = TheMsg.trial_number
          /\ recorder.enable_hdf5 =>
                /\ hdf5'.trial_data = <<TheMsg>>
                /\ Len(hdf5'.groups) = Len(hdf5.groups) + 1
                /\ Last(hdf5'.groups).success = TRUE
                /\ Last(hdf5'.groups).timeseries = hdf5.trial_data]_vars

\* C3: while the trial started by a Running message numbered n is active, a
\* Running message numbered n only appends one sample: no trial is closed
\* and none is started, whatever Paused or Idle messages came before.
C3_SameNumberAppends ==
    [][(/\ ProcessStep
        /\ recorder.trial_active
        /\ TheMsg.task_state = RUNNING
        /\ TheMsg.trial_number = ActiveNumber)
       => /\ Lifecycle(NewEvents) = <<>>
          /\ recorder'.trial_active
          /\ csv' = csv
          /\ recorder.enable_hdf5 =>
                /\ hdf5'.trial_data = Append(hdf5.trial_data, TheMsg)
                /\ hdf5'.groups = hdf5.groups]_vars

\* C4: a Paused message processed while a trial is active changes nothing of
\* the detector: the trial stays active, the trial number later Running
\* messages are compared against is unchanged, no sample is appended and no
\* start or end is issued, whatever trial_number the message carries.
C4_PausedFrame ==
    [][(/\ ProcessStep
        /\ recorder.trial_active
        /\ TheMsg.task_state = PAUSED)
       => /\ recorder'.trial_active
          /\ recorder'.current_trial = recorder.current_trial
          /\ recorder'.sample_count = recorder.sample_count
          /\ events' = events
          /\ hdf5' = hdf5
          /\ csv' = csv]_vars

\* C5: while a trial is active, a Completed message closes it with success =
\* true and a Failed message closes it with success = false; the detector
\* becomes Idle and the closing message contributes no sample.
C5_ExplicitClose ==
    [][(/\ ProcessStep
        /\ recorder.trial_active
        /\ TheMsg.task_state \in {COMPLETED, FAILED})
       => /\ ~recorder'.trial_active
          /\ Len(NewEvents) = 1
          /\ IsEnd(NewEvents[1])
          /\ NewEvents[1].arg = (TheMsg.task_state = COMPLETED)
          /\ recorder'.sample_count = recorder.sample_count
          /\ hdf5'.trial_data = hdf5.trial_data
          /\ recorder.enable_hdf5 =>
                /\ Len(hdf5'.groups) = Len(hdf5.groups) + 1
                /\ Last(hdf5'.groups).success = (TheMsg.task_state = COMPLETED)
                /\ Last(hdf5'.groups).timeseries = hdf5.trial_data
          /\ (recorder.enable_hdf5 /\ recorder.enable_csv) =>
                /\ Len(csv'.rows) = Len(csv.rows) + 1
                /\ Last(csv'.rows).success = (TheMsg.task_state = COMPLETED)]_vars

\* a Failed message has closed an active trial holding two samples: both
\* sinks have the summary flagged as failed, without a sample of that message
C5_Witness ==
    /\ recorder.enable_hdf5 /\ recorder.enable_csv
    /\ ~recorder.trial_active
    /\ Len(trace) = 3
    /\ IsProcessOf(trace[3], {FAILED})
    /\ events # <<>>
    /\ IsEnd(Last(events)) /\ Last(events).arg = FALSE /\ Last(events).at = 3
    /\ Len(hdf5.groups) = 1
    /\ hdf5.groups[1].success = FALSE
    /\ Len(hdf5.groups[1].timeseries) = 2
    /\ Len(csv.rows) = 1
    /\ csv.rows[1].success = FALSE

\* the number of Running messages processed from the call that started the
\* k-th trial up to, and without, the call that closed it
RunningBetween(k) ==
    LET s == StartsOf(events)[k].at
        e == EndsOf(events)[k].at
    IN  Cardinality({i \in s..(e - 1) : IsProcessOf(trace[i], {RUNNING})})

\* C6: the sample_count of the summary of a closed trial (HDF5 summary and
\* CSV row) is the number of Running messages processed between the trial's
\* start and its close; Paused, Idle, Completed and Failed messages and the
\* samples of earlier trials are not counted.
C6_SampleCount ==
    /\ \A k \in 1..Len(hdf5.groups) :
          hdf5.groups[k].sample_count = RunningBetween(k)
    /\ \A k \in 1..Len(csv.rows) :
          csv.rows[k].sample_count = RunningBetween(k)

\* a second trial closed with two samples around a Paused message
C6_Witness ==
    /\ Len(hdf5.groups) >= 1 /\ Len(csv.rows) >= 1
    /\ \E k \in 1..Len(csv.rows) :
          /\ csv.rows[k].sample_count = 2
          /\ hdf5.groups[k].sample_count = 2
          /\ \E i \in StartsOf(events)[k].at..EndsOf(events)[k].at :
                IsProcessOf(trace[i], {PAUSED})

\* C7: stop() while a trial is active force-closes it with success = false
\* and delivers its summary to every enabled sink before the sinks are
\* closed; after stop no trial is active.
C7_StopForceCloses ==
    [][(StopStep /\ recorder.trial_active)
       => /\ ~recorder'.trial_active
          /\ Len(NewEvents) = 1 /\ IsEnd(NewEvents[1]) /\ NewEvents[1].arg = FALSE
          /\ recorder.enable_hdf5 =>
                /\ Len(hdf5'.groups) = Len(hdf5.groups) + 1
                /\ Last(hdf5'.groups).success = FALSE
                /\ ~hdf5'.file
          /\ recorder.enable_csv =>
                /\ Len(csv'.rows) = Len(csv.rows) + 1
                /\ Last(csv'.rows).success = FALSE
                /\ ~csv'.writer]_vars

\* C8: every trial close delivers exactly one summary to every registered
\* sink, for every combination of enabled sinks.
C8_OneSummaryPerClose ==
    /\ recorder.enable_hdf5 => Len(hdf5.groups) = Len(EndsOf(events))
    /\ recorder.enable_csv => Len(csv.rows) = Len(EndsOf(events))
\* the messages passed to process() so far, in call order
Processed ==
    LET calls == SelectSeq(trace, LAMBDA c : c.call = "process")
    IN  [i \in 1..Len(calls) |-> calls[i].msg]

\* C9: the consumer loop of main() hands every decoded message to
\* process() at most once (never the same message on two poll ticks), and
\* a poll leaves no message of the backlog unprocessed.
C9_EachMessageOnce ==
    [][ProcessStep
       => /\ \A i \in 1..Len(Processed) : Processed[i] # TheMsg
          /\ \A k \in 1..Len(receiver.queue) :
                \E i \in 1..Len(Processed') : Processed'[i] = receiver.queue[k]]_vars

\* the datagrams taken from the socket that decode successfully
Decodable(ds) == SelectSeq(ds, LAMBDA d : from_bytes(d) # None)

\* the loop threads that hold a decodable datagram not yet counted
Uncounted ==
    {t \in 1..Len(threads) :
        \/ threads[t].pc \in {"lock", "append", "last_message", "count_load", "count_store"}
        \/ threads[t].pc = "from_bytes" /\ from_bytes(threads[t].data[1]) # None}

\* C10: receive_count is the number of successfully decoded datagrams the
\* read loop has finished handling, whatever get_latest / get_all callers
\* did in between: it lags the decodable datagrams taken from the socket by
\* exactly the one the loop is still handling.
C10_ReceiveCount ==
    receiver.receive_count = Len(Decodable(taken)) - Cardinality(Uncounted)

\* two datagrams decoded and counted, one undecodable datagram taken, with
\* a get_all and a get_latest caller having run in between
C10_Witness ==
    /\ receiver.receive_count = 2
    /\ Len(taken) = 3
    /\ Uncounted = {}
    /\ drained # <<>>
    /\ Processed # <<>>
\* the datagrams taken from the socket that fail to decode
Undecodable(ds) == SelectSeq(ds, LAMBDA d : from_bytes(d) = None)

\* no loop thread is between taking a datagram and the end of its handling
LoopsQuiescent ==
    \A t \in 1..Len(threads) : threads[t].pc \in {"while", "recvfrom", "exit"}

\* C11: every datagram that fails to decode increments error_count by
\* exactly one and is dropped: while the socket is open (no socket error
\* has been counted), error_count is the number of undecodable datagrams
\* the read loop has handled.
C11_DecodeErrorsCounted ==
    (receiver.socket_open /\ LoopsQuiescent)
        => receiver.error_count = Len(Undecodable(taken))

\* the messages the read loop has appended to the backlog, in order: the
\* decodable datagrams taken, less the one a thread has not appended yet
Pushed ==
    LET ds == Decodable(taken)
        pending == {t \in 1..Len(threads) :
                       \/ threads[t].pc \in {"lock", "append"}
                       \/ threads[t].pc = "from_bytes"
                          /\ from_bytes(threads[t].data[1]) # None}
        n == Len(ds) - Cardinality(pending)
    IN  [i \in 1..n |-> from_bytes(ds[i])[1]]

\* position of message m in the sequence s of distinct messages, 0 if absent
IndexIn(s, m) ==
    IF \E i \in 1..Len(s) : s[i] = m
    THEN CHOOSE i \in 1..Len(s) : s[i] = m
    ELSE 0

\* the number of messages appended since the last get_all that returned any
SinceDrain ==
    Len(Pushed) - (IF drained = <<>> THEN 0 ELSE IndexIn(Pushed, Last(drained)))

Min(a, b) == IF a <= b THEN a ELSE b

\* C12: the backlog never holds more than queue_size messages, and it holds
\* exactly the most recent ones appended since the last drain, in arrival
\* order: all of them up to queue_size, the queue_size newest beyond that.
C12_BacklogEviction ==
    LET n == Len(receiver.queue)
    IN  /\ n <= queue_size
        /\ n = Min(queue_size, SinceDrain)
        /\ receiver.queue = SubSeq(Pushed, Len(Pushed) - n + 1, Len(Pushed))

\* more messages than the capacity were appended without a drain: the
\* oldest was evicted
C12_Witness ==
    /\ drained = <<>>
    /\ Len(Pushed) = queue_size + 1
    /\ Len(receiver.queue) = queue_size
    /\ receiver.queue[1] = Pushed[2]
\* C13: get_latest returns nothing until the first message has been
\* published and afterwards the most recently published one; whenever the
\* guard is free (a consumer can take it) the newest element of a non-empty
\* backlog is the latest message.
C13_LatestIsNewest ==
    lock = None =>
        /\ UDPReceiver_get_latest = IF Pushed = <<>> THEN None ELSE Some(Last(Pushed))
        /\ receiver.queue # <<>> => Some(Last(receiver.queue)) = receiver.last_message

\* two messages published, the second is the latest and the newest of the
\* backlog, and main() has polled it
C13_Witness ==
    /\ lock = None
    /\ Len(Pushed) = 2
    /\ receiver.queue # <<>>
    /\ receiver.last_message = Some(Pushed[2])
    /\ Processed # <<>> /\ Last(Processed) = Pushed[2]

\* C14: get_all returns and clears the backlog atomically: the messages
\* returned so far followed by those still waiting are in arrival order
\* without repetition (none is returned twice), and an appended message
\* that is neither returned nor waiting was evicted by an overflow.
C14_GetAllAtomic ==
    LET dq == drained \o receiver.queue
    IN  /\ \A i \in 1..Len(dq) : IndexIn(Pushed, dq[i]) > 0
        /\ \A i, j \in 1..Len(dq) :
              i < j => IndexIn(Pushed, dq[i]) < IndexIn(Pushed, dq[j])
        /\ \A p \in 1..Len(Pushed) :
              IndexIn(dq, Pushed[p]) = 0 => Len(Pushed) >= p + queue_size

\* a get_all returned the backlog after an overflow evicted the oldest
\* message
C14_Witness ==
    /\ Len(Pushed) = queue_size + 1
    /\ Len(drained) = queue_size
    /\ IndexIn(drained, Pushed[1]) = 0
    /\ receiver.queue = <<>>

\* C15: the socket is closed only after the read loop has exited: in no
\* state is the socket closed while a loop thread has not yet exited, also
\* when the bounded join timed out.
C15_CloseAfterLoopExit ==
    ~receiver.socket_open => \A t \in 1..Len(threads) : threads[t].pc = "exit"

\* C17: the read loop ends only by seeing the stop signal at its while
\* test; an empty read, a datagram that fails to decode and a socket
\* exception all lead back to the next pass of the loop.
C17_LoopSurvivesErrors ==
    [][\A t \in 1..Len(threads) :
          /\ (threads[t].pc # "exit" /\ threads'[t].pc = "exit")
                => (threads[t].pc = "while" /\ ~receiver.running)
          /\ (threads[t].pc = "recvfrom" /\ threads'[t].pc # "recvfrom"
              /\ (~receiver.socket_open \/ sockbuf = <<>>))
                => threads'[t].pc \in {"while", "error_load"}
          /\ (threads[t].pc = "from_bytes" /\ threads'[t].pc # "from_bytes"
              /\ from_bytes(threads[t].data[1]) = None)
                => threads'[t].pc = "while"
          /\ (threads[t].pc = "error_load" /\ threads'[t].pc # "error_load")
                => threads'[t].pc = "error_store"
          /\ (threads[t].pc = "error_store" /\ threads'[t].pc # "error_store")
                => threads'[t].pc = "while"]_vars

\* the loop is back at its while test after an undecodable datagram and a
\* counted socket exception
C17_Witness ==
    /\ threads # <<>>
    /\ threads[1].pc = "while"
    /\ Undecodable(taken) # <<>>
    /\ receiver.error_count >= 1

\* C18: the guard is held only across the two writes of the backlog and of
\* the latest message: a thread holding it is never at the socket read, at
\* the decoding or at a counter update, so the guard is always released by
\* the holder's next steps and no consumer waits behind I/O.
C18_GuardOnlyAroundSharedState ==
    /\ lock # None => threads[lock[1]].pc \in {"append", "last_message"}
    /\ \A t \in 1..Len(threads) :
          threads[t].pc \in {"append", "last_message"} => lock = Some(t)

\* the guard is held while datagrams wait at the socket and main() polls
C18_Witness ==
    /\ lock # None
    /\ sockbuf # <<>>
    /\ phase = "poll"

\* C16: once stop() has been called on a started receiver, every loop
\* thread eventually sees the stop signal and exits, whatever datagrams
\* arrive, and stop() returns; stop() on a receiver never started returns
\* as well.
C16_StopTerminates ==
    /\ (phase = "join") ~> (\A t \in 1..Len(threads) : threads[t].pc = "exit")
    /\ (phase = "finally") ~> (phase = "socket_close")

\* stop() was called on a started receiver that had taken datagrams, and
\* the loop thread has exited
C16_Witness ==
    /\ phase \in {"join", "socket_close"}
    /\ threads # <<>>
    /\ threads[1].pc = "exit"
    /\ taken # <<>>
    /\ sockbuf # <<>>

NoNaN(m) == \A i \in 1..Len(FloatFields) : ~IsNaN(m[FloatFields[i]])

Framed == codec.pc \in {"frame", "decoded"} /\ codec.kind = "exact"

Decoded(kind) == codec.pc = "decoded" /\ codec.kind = kind

\* C19 as stated: for every valid message m, to_bytes(m) is exactly 64
\* bytes and from_bytes(to_bytes(m)) equals m.
C19_RoundTripEveryMessage ==
    /\ Framed => Len(codec.data) = MESSAGE_SIZE
    /\ Decoded("exact") =>
          (codec.out # None /\ UDPMessage_eq(codec.out[1], codec.msg))

\* C19: for every valid message m none of whose seven float fields is NaN,
\* to_bytes(m) is exactly 64 bytes and from_bytes(to_bytes(m)) equals m;
\* the frame is 64 bytes for every valid message.
C19_RoundTrip ==
    /\ Framed => Len(codec.data) = MESSAGE_SIZE
    /\ (Decoded("exact") /\ NoNaN(codec.msg)) =>
          (codec.out # None /\ UDPMessage_eq(codec.out[1], codec.msg))

\* a message with a negative zero and a trial number above 65535 came back
\* equal from its own frame
C19_Witness ==
    /\ Decoded("exact")
    /\ NoNaN(codec.msg)
    /\ codec.msg.cursor_x = FloatNegZero
    /\ codec.msg.task_state = FAILED
    /\ codec.msg.trial_number = 65537
    /\ codec.out # None
    /\ UDPMessage_eq(codec.out[1], codec.msg)

\* C20: decoding fewer than 64 bytes always fails (from_bytes returns None,
\* its one failure result) whatever the bytes are; decoding a frame followed
\* by trailing bytes gives the message the frame alone carries.
C20_ShortFailsTailIgnored ==
    /\ (codec.pc = "decoded" /\ Len(codec.data) < MESSAGE_SIZE) => codec.out = None
    /\ Decoded("long") =>
          (Len(codec.data) > MESSAGE_SIZE /\ codec.out = Some(codec.msg))

\* a frame cut to 63 bytes was decoded and refused
C20_Witness ==
    /\ Decoded("short")
    /\ Len(codec.data) = MESSAGE_SIZE - 1
    /\ codec.out = None

\* the result from_bytes gives for a frame that is too short
TooShortOutcome == UDPMessage_from_bytes(SubSeq(codec.data, 1, MESSAGE_SIZE - 1))

\* C21: decoding a frame of at least 64 bytes whose task-state ordinal is 5
\* or greater always fails, with an outcome distinct from the outcome of a
\* frame that is too short; a frame with ordinal 0..4 decodes to a message
\* whose task_state is the TaskState member of that ordinal.
C21_InvalidEnumDistinct ==
    /\ Decoded("bad_ordinal") =>
          /\ Len(codec.data) >= MESSAGE_SIZE
          /\ codec.out = None
          /\ codec.out # TooShortOutcome
    /\ Decoded("exact") =>
          /\ codec.out # None
          /\ codec.out[1].task_state = unpack_uint32(SubSeq(codec.data, 57, 60))
          /\ codec.out[1].task_state \in TaskState

IsRecord(e) == e.op = "record"

\* C22: the notifications the time-series sink receives (trial-start,
\* sample, trial-end) are a repetition of trial-start, one or more samples,
\* trial-end, the last repetition possibly still open: the first is a
\* trial-start, a trial-start follows nothing or a trial-end, a sample follows
\* a trial-start or a sample, a trial-end follows a sample, and every
\* trial-start has its first sample by the end of the same call.
C22_SinkSequenceWellFormed ==
    recorder.enable_hdf5 =>
        /\ events # <<>> => ~IsStart(Last(events))
        /\ \A i \in 1..Len(events) :
              /\ IsStart(events[i]) => (i = 1 \/ IsEnd(events[i - 1]))
              /\ IsRecord(events[i]) =>
                    (i > 1 /\ (IsStart(events[i - 1]) \/ IsRecord(events[i - 1])))
              /\ IsEnd(events[i]) => (i > 1 /\ IsRecord(events[i - 1]))

\* two trials were delivered in full: start, sample, end, start, sample, end
C22_Witness ==
    /\ recorder.enable_hdf5
    /\ Len(events) = 6
    /\ Len(EndsOf(events)) = 2
    /\ Len(hdf5.groups) = 2

\* C23: in every state in which no trial is active after a trial has been
\* closed, the per-trial sample buffer is empty and the detector's sample
\* counter is 0.
C23_CloseResetsAccumulator ==
    (~recorder.trial_active /\ EndsOf(events) # <<>>) =>
        /\ hdf5.trial_data = <<>>
        /\ recorder.sample_count = 0

\* C24: the trial number the sinks record for the k-th closed trial (HDF5
\* group name, CSV 'trial' column) is the trial_number of the Running
\* message that started that trial, for every sequence of trial numbers.
C24_SinkTrialNumber ==
    /\ \A k \in 1..Len(hdf5.groups) :
          hdf5.groups[k].trial = StartsOf(events)[k].arg
    /\ \A k \in 1..Len(csv.rows) :
          csv.rows[k].trial = StartsOf(events)[k].arg

\* C25: while no trial is active, processing an Idle, Paused, Completed or
\* Failed message leaves the detector without an active trial, starts and
\* closes no trial, appends no sample and produces no summary.
C25_IdleNoOp ==
    [][(/\ ProcessStep
        /\ ~recorder.trial_active
        /\ TheMsg.task_state \in {IDLE, PAUSED, COMPLETED, FAILED})
       => /\ ~recorder'.trial_active
          /\ events' = events
          /\ recorder'.sample_count = recorder.sample_count
          /\ hdf5' = hdf5
          /\ csv' = csv]_vars

\* a trial was closed by the second message and the third, a Paused one,
\* found no trial active and left no mark
C25_Witness ==
    /\ Len(trace) = 3
    /\ IsProcessOf(trace[3], {PAUSED})
    /\ ~recorder.trial_active
    /\ events # <<>>
    /\ IsEnd(Last(events)) /\ Last(events).at = 2
    /\ Len(hdf5.groups) = 1

\* C28: every summary delivered to a sink has sample_count >= 1, and while
\* a trial is active the detector's sample counter equals the length of the
\* accumulator's sample buffer (at least 1 when the time-series sink is on).
C28_NoEmptySummary ==
    /\ \A k \in 1..Len(hdf5.groups) : hdf5.groups[k].sample_count >= 1
    /\ \A k \in 1..Len(csv.rows) : csv.rows[k].sample_count >= 1
    /\ recorder.trial_active =>
          /\ recorder.sample_count = Len(hdf5.trial_data)
          /\ recorder.enable_hdf5 => recorder.sample_count >= 1

\* stop() closed a trial that a single Running message had started: both
\* sinks hold a one-sample summary
C28_Witness ==
    /\ trace # <<>>
    /\ Last(trace).call = "stop"
    /\ Len(trace) = 2
    /\ IsProcessOf(trace[1], {RUNNING})
    /\ Len(hdf5.groups) = 1 /\ hdf5.groups[1].sample_count = 1
    /\ Len(csv.rows) = 1 /\ csv.rows[1].sample_count = 1

\* the step closed a trial
ClosesTrial == \E i \in 1..Len(NewEvents) : IsEnd(NewEvents[i])

\* C29: an Idle message processed while a trial is active neither closes
\* the trial nor appends a sample; an active trial is closed only by a
\* Completed or Failed message, a Running message numbered differently from
\* the active trial, or stop(); and every close produces a summary with an
\* explicit success flag in each enabled sink.
C29_IdleKeepsTrialOpen ==
    [][/\ (/\ ProcessStep
           /\ recorder.trial_active
           /\ TheMsg.task_state = IDLE)
          => /\ recorder'.trial_active
             /\ events' = events
             /\ recorder'.sample_count = recorder.sample_count
             /\ hdf5' = hdf5
             /\ csv' = csv
       /\ ClosesTrial
          => /\ recorder.trial_active
             /\ \/ StopStep
                \/ ProcessStep /\ TheMsg.task_state \in {COMPLETED, FAILED}
                \/ /\ ProcessStep
                   /\ TheMsg.task_state = RUNNING
                   /\ TheMsg.trial_number # ActiveNumber
             /\ recorder.enable_hdf5 =>
                   /\ Len(hdf5'.groups) = Len(hdf5.groups) + 1
                   /\ Last(hdf5'.groups).success \in BOOLEAN
             /\ recorder.enable_csv =>
                   /\ Len(csv'.rows) = Len(csv.rows) + 1
                   /\ Last(csv'.rows).success \in BOOLEAN]_vars

\* C26: when a read attempt of the loop finds no datagram waiting, the
\* loop's next step is a yield or a brief sleep, so that two consecutive
\* empty read attempts are always separated by a yield.
C26_YieldAfterEmptyRead ==
    [][\A t \in 1..Len(threads) :
          (/\ threads[t].pc = "recvfrom"
           /\ receiver.socket_open
           /\ sockbuf = <<>>
           /\ threads'[t].pc # "recvfrom")
          => threads'[t].pc \in {"yield", "sleep"}]_vars

\* the loop threads that have not returned from _receive_loop
AliveLoops == {t \in 1..Len(threads) : threads[t].pc # "exit"}

\* C27: over any interleaving of start(), stop() and close() calls on one
\* receiver, at most one background read loop is alive at any time.
C27_AtMostOneLoop == Cardinality(AliveLoops) <= 1
====
